---- MODULE Spec2Model ----
(***************************************************************************)
(* Model of the SERQ native backend commands:                              *)
(*   - the debug log bridge (src-tauri/src/commands/debug_bridge.rs):      *)
(*     debug_bridge_log renders an event, appends it to the log file and   *)
(*     rotates the file when it grows above 5 MiB; debug_bridge_clear      *)
(*     empties the file;                                                   *)
(*   - the API key commands (src-tauri/src/commands/ai.rs): set_api_key,   *)
(*     get_api_key, has_api_key over the keyring capability.               *)
(*                                                                         *)
(* Strings and file contents are sequences of bytes (UTF-8), so that byte  *)
(* offsets, char boundaries and newlines are what the code sees.  Sizes    *)
(* are scaled: MiB stands for 1024 * 1024 bytes.                           *)
(***************************************************************************)
EXTENDS Integers, Sequences, FiniteSets, TLC

VARIABLES
    home,         \* TRUE iff std::env::var("HOME") resolves
    fileExists,   \* the log file exists on disk
    fileContent,  \* its bytes (<<>> when it does not exist)
    op,           \* last command run: "init", "log", "clear"
    payload,      \* the payload of the last debug_bridge_log call
    result,       \* outcome of the last command
    pre,          \* the log file before the last command, and the command
                  \* and outcome before it
    line,         \* the entry rendered by the last debug_bridge_log call
    rotated,      \* the last call overwrote the file with the retained suffix
    rotContent,   \* the content the rotation step read
    rotStart,     \* the offset `start` the rotation step computed
    calls,        \* number of commands run so far
    ioFaults,     \* number of injected filesystem failures so far
    slot,         \* keyring entry for (SERVICE, KEY_NAME)
    storeOp,      \* last API key command: "init", "set", "get", "has"
    storeArg,     \* the key passed to the last set_api_key
    storeResult,  \* outcome of the last API key command
    readOutcome,  \* what keyring().get returned to the last get/has
    lastSet,      \* value of the last successful set_api_key
    lastGet,      \* [outcome, result] of the last get_api_key
    lastHas,      \* [outcome, result] of the last has_api_key
    procs,        \* concurrent debug_bridge_log calls: each one's position,
                  \* rendered entry, content read, and the calls whose
                  \* append landed after its read
    conc          \* history of the concurrent calls: whether two overlapped,
                  \* and whose append landed last

logVars == <<home, fileExists, fileContent, op, payload, result, pre, line,
             rotated, rotContent, rotStart, calls, ioFaults>>
storeVars == <<slot, storeOp, storeArg, storeResult, readOutcome, lastSet,
               lastGet, lastHas>>
concVars == <<procs, conc>>
vars == <<logVars, storeVars, concVars>>

----------------------------------------------------------------------------
(* Bounds *)

\* Scaled stand-in for 1024 * 1024 bytes.
MiB == 8
\* Number of log commands in one run.
MaxCalls == 2
\* Number of filesystem failures injected in one run.
MaxFaults == 1
\* Length of the arbitrary tail of a pre-existing log file.
MaxTail == 2
\* Bytes a failing write leaves behind.
MaxPartial == 2

----------------------------------------------------------------------------
(* Bytes and strings *)

NL == 10
\* "é" is the two bytes C3 A9; "É" is C3 89.
LeadByte == 195
ContByte == 169

Min(a, b) == IF a < b THEN a ELSE b

RECURSIVE Rep(_, _)
Rep(b, n) == IF n = 0 THEN <<>> ELSE <<b>> \o Rep(b, n - 1)

\* The literals of the format! calls, as bytes.
OpenBracket == <<91>>
CloseBracketSpace == <<93, 32>>
ColonSpace == <<58, 32>>
AtPrefix == <<NL, 32, 32, 97, 116, 32>>
StackPrefix == <<NL, 32, 32>>
DefaultLevel == <<108, 111, 103>>

Suffix(s, from) == SubSeq(s, from + 1, Len(s))

\* u8 is a UTF-8 continuation byte (10xxxxxx).
IsCont(b) == b >= 128 /\ b <= 191
\* u8 starts a two-byte sequence (110xxxxx).
IsLead2(b) == b >= 194 /\ b <= 223

\* str::is_char_boundary: 0 and len are boundaries, else the byte at the
\* offset is not a continuation byte.
IsCharBoundary(s, i) ==
    \/ i = 0
    \/ i = Len(s)
    \/ (i < Len(s) /\ ~IsCont(s[i + 1]))

\* What String::from_utf8 accepts, for one- and two-byte sequences (no
\* longer sequence occurs in the byte alphabet of the model).
ValidUtf8(s) ==
    \A i \in 1..Len(s) :
        /\ s[i] < 128 \/ IsCont(s[i]) \/ IsLead2(s[i])
        /\ IsLead2(s[i]) => (i < Len(s) /\ IsCont(s[i + 1]))
        /\ IsCont(s[i]) => (i > 1 /\ IsLead2(s[i - 1]))

\* str::to_uppercase on the UTF-8 bytes: ASCII a-z and the Latin-1 letters
\* U+00E0..U+00FE (C3 A0..C3 BE, except U+00F7) map to their capitals.
UpperByte(s, i) ==
    IF s[i] >= 97 /\ s[i] <= 122 THEN s[i] - 32
    ELSE IF i > 1 /\ s[i - 1] = 195 /\ s[i] >= 160 /\ s[i] <= 190 /\ s[i] # 183
         THEN s[i] - 32
    ELSE s[i]

ToUppercase(s) == [i \in 1..Len(s) |-> UpperByte(s, i)]

\* Offset of the first NL at or after `from`, or -1 (str::find on a suffix,
\* rebased to the whole string).
FindNewline(s, from) ==
    IF \E i \in from..(Len(s) - 1) : s[i + 1] = NL
    THEN CHOOSE i \in from..(Len(s) - 1) :
            /\ s[i + 1] = NL
            /\ \A j \in from..(i - 1) : s[j + 1] # NL
    ELSE -1

\* str::lines: split at NL; a final empty piece is not a line.
RECURSIVE Lines(_)
Lines(s) ==
    IF s = <<>> THEN <<>>
    ELSE LET n == FindNewline(s, 0) IN
         IF n = -1 THEN <<s>>
         ELSE <<SubSeq(s, 1, n)>> \o Lines(Suffix(s, n + 1))

----------------------------------------------------------------------------
(* Payloads: the JSON document carried by `entry` *)

AbsentF == [t |-> "absent", s |-> <<>>]
StrF(bytes) == [t |-> "str", s |-> bytes]
\* a JSON value that is not a string (number, bool, array, ...)
OtherF == [t |-> "other", s |-> <<>>]

Doc(kind, level, message, timestamp, source, stack) ==
    [kind |-> kind, level |-> level, message |-> message,
     timestamp |-> timestamp, source |-> source, stack |-> stack]

\* text that serde_json::from_str rejects
Malformed == Doc("malformed", AbsentF, AbsentF, AbsentF, AbsentF, AbsentF)
\* a well-formed document that is not an object
NonObject(kind) == Doc(kind, AbsentF, AbsentF, AbsentF, AbsentF, AbsentF)

\* the parse error swallowed (unwrap_or_default)
ParseOkAlways(p) == TRUE

\* serde_json::from_str(&entry): Err for malformed text
ParseOk(p) == p.kind # "malformed"

\* Value indexing parsed["key"]: Null unless an object with that member.
Index(p, key) == IF p.kind = "object" THEN p[key] ELSE AbsentF

\* Value::as_str
IsStr(v) == v.t = "str"
UnwrapOr(v, default) == IF IsStr(v) THEN v.s ELSE default

\* the stack lines pushed without their indentation
RECURSIVE StackLinesFlat(_)
StackLinesFlat(ls) ==
    IF ls = <<>> THEN <<>>
    ELSE <<NL>> \o Head(ls) \o StackLinesFlat(Tail(ls))

RECURSIVE StackLines(_)
StackLines(ls) ==
    IF ls = <<>> THEN <<>>
    ELSE StackPrefix \o Head(ls) \o StackLines(Tail(ls))

\* `line` before line.push('\n').
RenderBody(p) ==
    LET level == UnwrapOr(Index(p, "level"), DefaultLevel)
        message == UnwrapOr(Index(p, "message"), <<>>)
        timestamp == UnwrapOr(Index(p, "timestamp"), <<>>)
        source == Index(p, "source")
        stack == Index(p, "stack")
        first == OpenBracket \o timestamp \o CloseBracketSpace
                 \o ToUppercase(level) \o ColonSpace \o message
        withSrc == IF IsStr(source) THEN first \o AtPrefix \o source.s ELSE first
        withStack == IF IsStr(stack) THEN withSrc \o StackLines(Lines(stack.s))
                     ELSE withSrc
    IN withStack

\* line.push('\n') forgotten
RenderUnterminated(p) == RenderBody(p)

\* The rendered entry built in `line`.
Render(p) == RenderBody(p) \o <<NL>>

----------------------------------------------------------------------------
(* Rotation *)

MaxSize == 5 * MiB
KeepSize == MiB

\* the ceiling written with a factor of 1024 too many
NeedsRotationLate(len) == len > 1024 * MaxSize

\* the comparison written >=
NeedsRotationAtCeiling(len) == len >= MaxSize

NeedsRotation(len) == len > MaxSize

\* the cut point one byte late
KeepFromLate(len) == IF len > KeepSize THEN len - KeepSize + 1 ELSE 0

\* content.len().saturating_sub(1024 * 1024)
KeepFrom(len) == IF len > KeepSize THEN len - KeepSize ELSE 0

\* the newline itself kept: keep_from + i
RotateStartAtNewline(content) ==
    LET keep_from == KeepFrom(Len(content))
        n == FindNewline(content, keep_from)
    IN IF n # -1 THEN n ELSE keep_from

\* content[keep_from..].find('\n').map(|i| keep_from + i + 1).unwrap_or(keep_from)
RotateStart(content) ==
    LET keep_from == KeepFrom(Len(content))
        n == FindNewline(content, keep_from)
    IN IF n # -1 THEN n + 1 ELSE keep_from

----------------------------------------------------------------------------
(* Inputs *)

\* A message of several MiB, so that few appends reach the ceiling.
LongMessage == Rep(97, 3 * MiB)

Levels == {StrF(<<97>>)}
Messages == {AbsentF, StrF(<<LeadByte, ContByte>>), StrF(LongMessage)}
Timestamps == {AbsentF}
Sources == {AbsentF, StrF(<<115>>)}
Stacks == {AbsentF, StrF(<<97, LeadByte, ContByte>>)}

Objects ==
    {Doc("object", l, m, t, s, k) :
        l \in Levels, m \in Messages, t \in Timestamps, s \in Sources, k \in Stacks}

Payloads ==
    Objects \cup {Malformed, NonObject("null"),
                  Doc("object", OtherF, AbsentF, AbsentF, AbsentF, AbsentF)}

\* Points of debug_bridge_log where the filesystem can fail.
Faults == {"none", "open", "write", "metadata", "read", "rewrite"}

\* How far a failing write got: the bytes of `line` written before write_all
\* failed; for std::fs::write, -1 when the file could not be opened (and so
\* was not truncated), else the bytes of the suffix written before it failed.
PartialRange(content, p, fault) ==
    IF fault = "write" THEN 0..Min(Len(Render(p)) - 1, MaxPartial)
    ELSE IF fault = "rewrite"
         THEN LET c == content \o Render(p)
              IN (-1)..Min(Len(c) - RotateStart(c) - 1, MaxPartial)
    ELSE {0}

----------------------------------------------------------------------------
(* debug_bridge_log *)

Outcome(res, ex, content, ln, rot, rc, rs, flt) ==
    [result |-> res, exists |-> ex, content |-> content, line |-> ln,
     rotated |-> rot, rotContent |-> rc, rotStart |-> rs, faulted |-> flt]

\* The rotation block, entered with the file holding `content`.
Rotate(content, ln, fault, k) ==
    IF fault = "read"
    THEN Outcome("io_read", TRUE, content, ln, FALSE, <<>>, 0, TRUE)
    ELSE IF ~ValidUtf8(content)
    THEN Outcome("io_read", TRUE, content, ln, FALSE, <<>>, 0, FALSE)
    ELSE IF ~IsCharBoundary(content, KeepFrom(Len(content)))
    THEN Outcome("panic", TRUE, content, ln, FALSE, content, 0, FALSE)
    ELSE LET start == RotateStart(content)
             kept == Suffix(content, start)
         IN IF fault = "rewrite"
            THEN Outcome("io_rewrite", TRUE,
                         IF k = -1 THEN content ELSE SubSeq(kept, 1, k),
                         ln, FALSE, content, start, TRUE)
            ELSE Outcome("ok", TRUE, kept, ln, TRUE, content, start, FALSE)

\* the file opened without .append(true): the write lands at offset 0 of a
\* truncated file
WrittenTruncating(content, ln) == ln

\* write_all on a file opened with .create(true).append(true)
Written(content, ln) == content \o ln

\* The handler from line 12 on, with the log path resolved.
LogWithHome(ex, content, p, fault, k) ==
    IF ~ParseOk(p)
    THEN Outcome("parse", ex, content, <<>>, FALSE, <<>>, 0, FALSE)
    ELSE LET ln == Render(p) IN
         IF fault = "open"
         THEN Outcome("io_open", ex, content, ln, FALSE, <<>>, 0, TRUE)
         ELSE IF fault = "write"
         THEN Outcome("io_write", TRUE, Written(content, SubSeq(ln, 1, k)), ln,
                      FALSE, <<>>, 0, TRUE)
         ELSE LET written == Written(content, ln) IN
              IF fault = "metadata"
              THEN Outcome("io_metadata", TRUE, written, ln, FALSE, <<>>, 0, TRUE)
              ELSE IF NeedsRotation(Len(written))
              THEN Rotate(written, ln, fault, k)
              ELSE Outcome("ok", TRUE, written, ln, FALSE, <<>>, 0, FALSE)

\* HOME replaced by a default directory when unset (unwrap_or)
LogOutcomeDefaultHome(h, ex, content, p, fault, k) ==
    LogWithHome(ex, content, p, fault, k)

\* The whole handler on a file (ex, content): what it returns and what it
\* leaves on disk.
LogOutcome(h, ex, content, p, fault, k) ==
    IF ~h
    THEN Outcome("env", ex, content, <<>>, FALSE, <<>>, 0, FALSE)
    ELSE LogWithHome(ex, content, p, fault, k)

DebugBridgeLog(p, fault, k) ==
    /\ calls < MaxCalls
    /\ fault # "none" => ioFaults < MaxFaults
    /\ LET o == LogOutcome(home, fileExists, fileContent, p, fault, k) IN
        /\ fault # "none" => o.faulted
        /\ fileExists' = o.exists
        /\ fileContent' = o.content
        /\ result' = o.result
        /\ line' = o.line
        /\ rotated' = o.rotated
        /\ rotContent' = o.rotContent
        /\ rotStart' = o.rotStart
        /\ ioFaults' = IF o.faulted THEN ioFaults + 1 ELSE ioFaults
    /\ op' = "log"
    /\ payload' = p
    /\ pre' = [exists |-> fileExists, content |-> fileContent,
               op |-> op, result |-> result]
    /\ calls' = calls + 1
    /\ UNCHANGED <<home, storeVars, concVars>>

----------------------------------------------------------------------------
(* debug_bridge_clear *)

\* the file opened for append instead of truncated
ClearedAppending(content) == content

\* what std::fs::write(&log_path, "") leaves in the file
Cleared(content) == <<>>

\* std::fs::write(&log_path, ""): creates or truncates the file; nothing is
\* written after the truncation, so it fails only at the open.
DebugBridgeClear(fault) ==
    /\ calls < MaxCalls
    /\ fault => (home /\ ioFaults < MaxFaults)
    /\ IF ~home
       THEN /\ result' = "env"
            /\ UNCHANGED <<fileExists, fileContent, ioFaults>>
       ELSE IF fault
       THEN /\ result' = "io_rewrite"
            /\ ioFaults' = ioFaults + 1
            /\ UNCHANGED <<fileExists, fileContent>>
       ELSE /\ result' = "ok"
            /\ fileExists' = TRUE
            /\ fileContent' = Cleared(fileContent)
            /\ UNCHANGED ioFaults
    /\ op' = "clear"
    /\ payload' = Malformed
    /\ pre' = [exists |-> fileExists, content |-> fileContent,
               op |-> op, result |-> result]
    /\ line' = <<>>
    /\ rotated' = FALSE
    /\ rotContent' = <<>>
    /\ rotStart' = 0
    /\ calls' = calls + 1
    /\ UNCHANGED <<home, storeVars, concVars>>

----------------------------------------------------------------------------
(* API key commands over the keyring capability *)

Keys == {"", "abc123", "sk-2"}

NoEntry == [kind |-> "none", val |-> ""]
Entry(v) == [kind |-> "some", val |-> v]

\* app.keyring().get(SERVICE, KEY_NAME): Ok(value), Err(NoEntry), or another
\* Err when the capability fails.
KeyringGet(s, fail) ==
    IF fail THEN [tag |-> "err", val |-> ""]
    ELSE IF s.kind = "none" THEN [tag |-> "noentry", val |-> ""]
    ELSE [tag |-> "ok", val |-> s.val]

\* app.keyring().set(SERVICE, KEY_NAME, &key): the entries the capability may
\* hold afterwards.  A backend may keep an empty value or hold no entry for it.
KeyringSet(s, key, fail) ==
    IF fail THEN {s}
    ELSE IF key = "" THEN {Entry(key), NoEntry}
    ELSE {Entry(key)}

OkNone == [tag |-> "none", val |-> ""]
OkSome(v) == [tag |-> "some", val |-> v]
OkUnit == [tag |-> "unit", val |-> ""]
OkTrue == [tag |-> "true", val |-> ""]
OkFalse == [tag |-> "false", val |-> ""]
Failure == [tag |-> "err", val |-> ""]

\* get_api_key without the is_empty arm
GetApiKeyResultRaw(r) ==
    IF r.tag = "ok" THEN OkSome(r.val)
    ELSE IF r.tag = "noentry" THEN OkNone
    ELSE Failure

\* get_api_key with the is_empty test inverted
GetApiKeyResultInverted(r) ==
    IF r.tag = "ok" THEN (IF r.val # "" THEN OkNone ELSE OkSome(r.val))
    ELSE IF r.tag = "noentry" THEN OkNone
    ELSE Failure

\* get_api_key without the NoEntry arm
GetApiKeyResultNoArm(r) ==
    IF r.tag = "ok" THEN (IF r.val = "" THEN OkNone ELSE OkSome(r.val))
    ELSE Failure

\* the match of get_api_key
GetApiKeyResult(r) ==
    IF r.tag = "ok" THEN (IF r.val = "" THEN OkNone ELSE OkSome(r.val))
    ELSE IF r.tag = "noentry" THEN OkNone
    ELSE Failure

\* has_api_key answering true for any stored value
HasApiKeyResultAny(r) ==
    IF r.tag = "ok" THEN OkTrue
    ELSE IF r.tag = "noentry" THEN OkFalse
    ELSE Failure

\* the match of has_api_key
HasApiKeyResult(r) ==
    IF r.tag = "ok" THEN (IF r.val # "" THEN OkTrue ELSE OkFalse)
    ELSE IF r.tag = "noentry" THEN OkFalse
    ELSE Failure

NoRead == [tag |-> "unread", val |-> ""]
NoCall == [outcome |-> NoRead, result |-> OkUnit]

SetApiKey(key, fail) ==
    /\ slot' \in KeyringSet(slot, key, fail)
    /\ storeOp' = "set"
    /\ storeArg' = key
    /\ storeResult' = IF fail THEN Failure ELSE OkUnit
    /\ readOutcome' = NoRead
    /\ lastSet' = IF fail THEN lastSet ELSE Entry(key)
    /\ UNCHANGED <<lastGet, lastHas, logVars, concVars>>

GetApiKey(fail) ==
    LET r == KeyringGet(slot, fail) IN
    /\ storeOp' = "get"
    /\ storeResult' = GetApiKeyResult(r)
    /\ readOutcome' = r
    /\ lastGet' = [outcome |-> r, result |-> GetApiKeyResult(r)]
    /\ UNCHANGED <<slot, storeArg, lastSet, lastHas, logVars, concVars>>

HasApiKey(fail) ==
    LET r == KeyringGet(slot, fail) IN
    /\ storeOp' = "has"
    /\ storeResult' = HasApiKeyResult(r)
    /\ readOutcome' = r
    /\ lastHas' = [outcome |-> r, result |-> HasApiKeyResult(r)]
    /\ UNCHANGED <<slot, storeArg, lastSet, lastGet, logVars, concVars>>

----------------------------------------------------------------------------
(* Specifications *)

InitStore ==
    /\ slot = NoEntry
    /\ storeOp = "init"
    /\ storeArg = ""
    /\ storeResult = OkUnit
    /\ readOutcome = NoRead
    /\ lastSet = NoEntry
    /\ lastGet = NoCall
    /\ lastHas = NoCall

Procs == {1, 2}

\* no call in progress
IdleProc == [pc |-> "idle", line |-> <<>>, content |-> <<>>, missed |-> {}]

InitHistory ==
    /\ procs = [q \in Procs |-> IdleProc]
    /\ conc = [overlapped |-> FALSE, lastWriter |-> 0]
    /\ op = "init"
    /\ payload = Malformed
    /\ result = "ok"
    /\ pre = [exists |-> fileExists, content |-> fileContent,
              op |-> "init", result |-> "ok"]
    /\ line = <<>>
    /\ rotated = FALSE
    /\ rotContent = <<>>
    /\ rotStart = 0
    /\ ioFaults = 0

\* The log file is absent or empty when the run starts.
Init ==
    /\ home \in BOOLEAN
    /\ fileExists \in BOOLEAN
    /\ fileContent = <<>>
    /\ calls = 0
    /\ InitHistory
    /\ InitStore

TailBytes == {NL, 97, LeadByte, ContByte}
Tails == UNION {[1..n -> TailBytes] : n \in 0..MaxTail}
\* A fill below the ceiling by the shortest entry, at the ceiling, or none.
FillLens == {0, MaxSize - 7, MaxSize}
PriorContents == {Rep(97, n) \o t : n \in FillLens, t \in Tails}

\* The log file holds whatever earlier runs or other programs left in it;
\* one more command runs on it.
InitPrior ==
    /\ home \in BOOLEAN
    /\ fileExists = TRUE
    /\ fileContent \in PriorContents
    /\ calls = MaxCalls - 1
    /\ InitHistory
    /\ InitStore

InitAny == Init \/ InitPrior

Next ==
    \/ \E p \in Payloads, fault \in Faults :
          \E k \in PartialRange(fileContent, p, fault) : DebugBridgeLog(p, fault, k)
    \/ \E fault \in BOOLEAN : DebugBridgeClear(fault)

NextStore ==
    \/ \E key \in Keys, fail \in BOOLEAN : SetApiKey(key, fail)
    \/ \E fail \in BOOLEAN : GetApiKey(fail)
    \/ \E fail \in BOOLEAN : HasApiKey(fail)

\* The rotation block alone (lines 46-52), run on whatever the file holds
\* when it is read.
RotateContents ==
    {Rep(97, n) \o t : n \in {MaxSize - 1, MaxSize, MaxSize + MiB}, t \in Tails}

InitRotate ==
    /\ home = TRUE
    /\ fileExists = TRUE
    /\ fileContent \in RotateContents
    /\ calls = 0
    /\ InitHistory
    /\ InitStore

RotationStep ==
    /\ op = "init"
    /\ NeedsRotation(Len(fileContent))
    /\ LET o == Rotate(fileContent, <<>>, "none", 0) IN
        /\ fileContent' = o.content
        /\ result' = o.result
        /\ rotated' = o.rotated
        /\ rotContent' = o.rotContent
        /\ rotStart' = o.rotStart
    /\ op' = "rotate"
    /\ pre' = [exists |-> fileExists, content |-> fileContent,
               op |-> op, result |-> result]
    /\ calls' = calls + 1
    /\ UNCHANGED <<home, fileExists, payload, line, ioFaults, storeVars, concVars>>

NextRotate == RotationStep

\* Rendering: one append of a richer set of events on a few files.
RenderLevels == {AbsentF, StrF(<<97, LeadByte, ContByte>>)}
RenderMessages == {AbsentF, StrF(<<109, NL, 109>>)}
RenderTimestamps == {AbsentF, StrF(<<49>>)}
RenderSources == {AbsentF, StrF(<<>>), StrF(<<115>>)}
RenderStacks ==
    {AbsentF, StrF(<<>>), StrF(<<120>>), StrF(<<120, NL, 121, NL>>),
     StrF(<<NL, 120>>), StrF(<<120, NL, NL, 121>>)}

RenderPayloads ==
    {Doc("object", l, m, t, s, k) :
        l \in RenderLevels, m \in RenderMessages, t \in RenderTimestamps,
        s \in RenderSources, k \in RenderStacks}

InitRender ==
    /\ home = TRUE
    /\ \/ fileExists = FALSE /\ fileContent = <<>>
       \/ fileExists = TRUE /\ fileContent \in {<<>>, <<91, 93, 32, 65, 58, 32, NL>>}
    /\ calls = MaxCalls - 1
    /\ InitHistory
    /\ InitStore

NextRender == \E p \in RenderPayloads : DebugBridgeLog(p, "none", 0)

\* Two debug_bridge_log calls running at once (the command is registered
\* as a plain synchronous handler; nothing serialises two invocations).  A
\* call is four steps on the shared file: the append, the metadata query,
\* the read and the overwrite.  No failure is injected and HOME resolves.
Running == {"metadata", "read", "rewrite"}

\* the events of call q: its level names it
ConcPayloads(q) ==
    {Doc("object", StrF(<<96 + q>>), AbsentF, AbsentF, s, AbsentF) :
        s \in {AbsentF, StrF(<<115>>)}}

PriorEntry == Render(Doc("object", StrF(<<122>>), AbsentF, AbsentF, AbsentF, AbsentF))

RECURSIVE RepeatEntry(_, _)
RepeatEntry(e, k) == IF k = 0 THEN <<>> ELSE e \o RepeatEntry(e, k - 1)

\* entries of earlier calls: none, or up to the ceiling, or one entry less
ConcPriors ==
    {RepeatEntry(PriorEntry, k) :
        k \in {0, MaxSize \div Len(PriorEntry) - 1, MaxSize \div Len(PriorEntry)}}

InitConc ==
    /\ home = TRUE
    /\ fileExists = TRUE
    /\ fileContent \in ConcPriors
    /\ calls = 0
    /\ InitHistory
    /\ InitStore

\* lines 8-42: parse, render, open in append mode, write_all
LogAppend(q, p) ==
    /\ procs[q].pc = "idle"
    /\ home /\ ParseOk(p)
    /\ fileContent' = Written(fileContent, Render(p))
    /\ fileExists' = TRUE
    /\ procs' = [r \in Procs |->
                    IF r = q
                    THEN [procs[q] EXCEPT !.pc = "metadata", !.line = Render(p)]
                    ELSE IF procs[r].pc = "rewrite"
                    THEN [procs[r] EXCEPT !.missed = @ \cup {q}]
                    ELSE procs[r]]
    /\ conc' = [overlapped |-> conc.overlapped
                                \/ \E r \in Procs \ {q} : procs[r].pc \in Running,
                lastWriter |-> q]

\* lines 45-46: fs::metadata and the comparison with the ceiling
LogMetadata(q) ==
    /\ procs[q].pc = "metadata"
    /\ procs' = [procs EXCEPT ![q].pc =
                    IF NeedsRotation(Len(fileContent)) THEN "read" ELSE "done"]
    /\ UNCHANGED <<fileExists, fileContent, conc>>

\* line 47: fs::read_to_string
LogRead(q) ==
    /\ procs[q].pc = "read"
    /\ procs' = [procs EXCEPT
                    ![q].pc = IF ValidUtf8(fileContent) THEN "rewrite" ELSE "failed",
                    ![q].content = fileContent]
    /\ UNCHANGED <<fileExists, fileContent, conc>>

\* the overwrite writing the whole file as it is now
RewrittenFresh(current, content) == Suffix(current, RotateStart(current))

\* lines 48-51: the suffix of the content read at line 47 replaces the file,
\* whatever the file holds by now
Rewritten(current, content) == Suffix(content, RotateStart(content))

LogRewrite(q) ==
    /\ procs[q].pc = "rewrite"
    /\ IF IsCharBoundary(procs[q].content, KeepFrom(Len(procs[q].content)))
       THEN /\ fileContent' = Rewritten(fileContent, procs[q].content)
            /\ procs' = [procs EXCEPT ![q].pc = "done"]
       ELSE /\ procs' = [procs EXCEPT ![q].pc = "panic"]
            /\ UNCHANGED fileContent
    /\ UNCHANGED <<fileExists, conc>>

NextConc ==
    /\ \E q \in Procs :
        \/ \E p \in ConcPayloads(q) : LogAppend(q, p)
        \/ LogMetadata(q)
        \/ LogRead(q)
        \/ LogRewrite(q)
    /\ UNCHANGED <<home, op, payload, result, pre, line, rotated, rotContent,
                   rotStart, calls, ioFaults, storeVars>>

Spec == Init /\ [][Next]_vars
SpecConc == InitConc /\ [][NextConc]_vars
SpecRotate == InitRotate /\ [][NextRotate]_vars
SpecRender == InitRender /\ [][NextRender]_vars
SpecAny == InitAny /\ [][Next]_vars
SpecStore == Init /\ [][NextStore]_vars

----------------------------------------------------------------------------
(* Properties of the log bridge *)

IsPrefix(a, b) == Len(a) <= Len(b) /\ SubSeq(b, 1, Len(a)) = a
EndsWith(s, t) == Len(t) <= Len(s) /\ Suffix(s, Len(s) - Len(t)) = t
EndsWithNewline(s) == s # <<>> /\ s[Len(s)] = NL

\* the entries debug_bridge_log can render from the payloads
Entries == {Render(p) : p \in {q \in Payloads : ParseOk(q)}}

RECURSIVE IsEntryConcat(_)
IsEntryConcat(s) ==
    \/ s = <<>>
    \/ \E e \in Entries : IsPrefix(e, s) /\ IsEntryConcat(Suffix(s, Len(e)))

Appended == op = "log" /\ result = "ok"

\* C1: after every append that returns success the log file is at most
\* 5 MiB long; in particular after an append that pushed it above 5 MiB.
RotationSizeBound == Appended => Len(fileContent) <= MaxSize

\* an append found the file above the ceiling after its write and returned
\* success with a non-empty file
RotationSizeBoundWitness ==
    /\ Appended
    /\ rotated
    /\ Len(rotContent) > MaxSize
    /\ fileContent # <<>>

\* C2 as stated: after a successful append the file ends with the rendered
\* entry, rotation or not.
AppendThenRead == Appended => EndsWith(fileContent, line)

\* C2 amended: after a successful append the file ends with the rendered
\* entry when no rotation ran, and when one ran provided the entry is shorter
\* than 1 MiB and the previous content ended with a newline.
AppendThenReadUnlessCut ==
    (/\ Appended
     /\ rotated => (Len(line) < KeepSize /\ EndsWithNewline(pre.content)))
    => EndsWith(fileContent, line)

\* a rotation that kept the entry just written
AppendThenReadWitness ==
    /\ Appended
    /\ rotated
    /\ Len(line) < KeepSize
    /\ EndsWithNewline(pre.content)
    /\ EndsWith(fileContent, line)

\* C3: in a run without filesystem failures that starts from an absent or
\* empty file, the file is always a concatenation of complete rendered
\* entries.
WholeEntries == ioFaults = 0 => IsEntryConcat(fileContent)

\* C4: the content a rotation writes back is the suffix of the content it
\* read that starts at `start`, and it is empty or the byte before `start`
\* is a newline.
LineAlignedRotation ==
    (op = "log" /\ rotated) =>
        /\ fileContent = Suffix(rotContent, rotStart)
        /\ \/ fileContent = <<>>
           \/ (rotStart >= 1 /\ rotContent[rotStart] = NL)

\* a rotation that kept a non-empty suffix
LineAlignedRotationWitness ==
    /\ op = "log"
    /\ rotated
    /\ fileContent # <<>>
    /\ rotStart > KeepFrom(Len(rotContent)) + 1

\* C5: with the home directory resolved, an append of a payload that does
\* not parse returns the parse failure and leaves the file as it was, absent
\* or present, rotating nothing.
MalformedPayloadUntouched ==
    (op = "log" /\ home /\ payload.kind = "malformed") =>
        /\ result = "parse"
        /\ fileExists = pre.exists
        /\ fileContent = pre.content
        /\ ~rotated

\* a malformed payload met a file above the ceiling
MalformedPayloadWitness ==
    /\ op = "log"
    /\ home
    /\ payload.kind = "malformed"
    /\ result = "parse"
    /\ Len(fileContent) > MaxSize

\* C6: no command panics.
NoPanic == result # "panic"

----------------------------------------------------------------------------
(* Properties of the API key commands *)

ReadDone == readOutcome.tag # "err"

\* C7: when the last successful set stored the empty string, a get whose
\* capability read does not fail returns None and a has returns false, as on
\* a store that holds no entry.
SetEmptyIsAbsent ==
    (lastSet = Entry("") /\ ReadDone) =>
        /\ storeOp = "get" => storeResult = GetApiKeyResult(KeyringGet(NoEntry, FALSE))
        /\ storeOp = "get" => storeResult = OkNone
        /\ storeOp = "has" => storeResult = OkFalse

\* get read back the stored empty string and answered None
SetEmptyIsAbsentWitness ==
    /\ lastSet = Entry("")
    /\ storeOp = "get"
    /\ readOutcome = [tag |-> "ok", val |-> ""]
    /\ storeResult = OkNone

\* C8: when the last successful set stored a non-empty v, a get whose
\* capability read does not fail returns Some(v) and a has returns true.
SetThenGetRoundTrip ==
    (lastSet.kind = "some" /\ lastSet.val # "" /\ ReadDone) =>
        /\ storeOp = "get" => storeResult = OkSome(lastSet.val)
        /\ storeOp = "has" => storeResult = OkTrue

\* get returned the value of the last set
SetThenGetRoundTripWitness ==
    /\ lastSet = Entry("abc123")
    /\ storeOp = "get"
    /\ storeResult = OkSome("abc123")

\* C9: before any successful set, when the capability reports NoEntry, get
\* returns Ok(None) and has returns Ok(false).
AbsentBeforeSet ==
    (lastSet = NoEntry /\ readOutcome.tag = "noentry") =>
        /\ storeOp = "get" => storeResult = OkNone
        /\ storeOp = "has" => storeResult = OkFalse

\* get on the fresh store
AbsentBeforeSetWitness ==
    /\ lastSet = NoEntry
    /\ storeOp = "get"
    /\ readOutcome.tag = "noentry"
    /\ storeResult = OkNone

\* C10: on the same capability outcome has is true iff get is Some, false
\* iff get is None, and an error iff get is an error; both are errors exactly
\* on a capability failure other than NoEntry.
HasGetAgreement ==
    /\ (lastGet.outcome = lastHas.outcome /\ lastGet.outcome # NoRead) =>
        /\ lastHas.result = OkTrue <=> lastGet.result.tag = "some"
        /\ lastHas.result = OkFalse <=> lastGet.result = OkNone
        /\ lastHas.result = Failure <=> lastGet.result = Failure
    /\ lastGet.outcome # NoRead =>
        (lastGet.result = Failure <=> lastGet.outcome.tag = "err")
    /\ lastHas.outcome # NoRead =>
        (lastHas.result = Failure <=> lastHas.outcome.tag = "err")

\* get and has both read the stored empty string
HasGetAgreementWitness ==
    /\ lastGet.outcome = [tag |-> "ok", val |-> ""]
    /\ lastHas.outcome = lastGet.outcome
    /\ lastHas.result = OkFalse
    /\ lastGet.result = OkNone

----------------------------------------------------------------------------
(* Further properties of the log bridge *)

Unchanged == fileExists = pre.exists /\ fileContent = pre.content

\* the file after the write of the last append, before any rotation
AfterWrite == pre.content \o line

\* C11: a clear that returns success leaves an existing file of size zero
\* and runs no rotation, whatever the file held; a clear that follows a
\* successful clear succeeds too (no filesystem failure) and leaves it so.
ClearIdempotent ==
    /\ (op = "clear" /\ result = "ok") =>
        (fileExists /\ Len(fileContent) = 0 /\ ~rotated /\ rotContent = <<>>)
    /\ (op = "clear" /\ pre.op = "clear" /\ pre.result = "ok" /\ ioFaults = 0) =>
        (result = "ok" /\ Unchanged)

\* the second of two successful clears
ClearIdempotentWitness ==
    /\ op = "clear"
    /\ result = "ok"
    /\ pre.op = "clear"
    /\ pre.result = "ok"
    /\ Len(fileContent) = 0

\* C12: with HOME unset, append and clear return the environment failure
\* and the file is neither created nor changed, whatever the payload.
EnvironmentFailure ==
    (op \in {"log", "clear"} /\ ~home) => (result = "env" /\ Unchanged)

\* an append of a well-formed payload with HOME unset created no file
EnvironmentFailureWitness ==
    /\ op = "log"
    /\ ~home
    /\ ParseOk(payload)
    /\ result = "env"
    /\ ~fileExists

\* C13 as stated: after an append that returns a failure the file content
\* is what it was before the call; a success means the entry was written.
AppendFailureDrops ==
    /\ (op = "log" /\ result \notin {"ok", "panic"}) => fileContent = pre.content
    /\ Appended => (IF rotated THEN rotContent = AfterWrite
                    ELSE fileContent = AfterWrite)

\* C13 amended: a parse, environment or open failure leaves the file as it
\* was; a write failure leaves a proper prefix of the entry after the previous
\* content; a metadata or rotation-read failure leaves the whole entry after
\* it; a rotation-rewrite failure leaves that or a proper prefix of the
\* retained suffix; a success means the entry was written.
AppendFailureEffect ==
    op = "log" =>
        /\ result \in {"env", "parse", "io_open"} => Unchanged
        /\ result = "io_write" =>
            \E k \in 0..(Len(line) - 1) :
                fileContent = pre.content \o SubSeq(line, 1, k)
        /\ result \in {"io_metadata", "io_read"} => fileContent = AfterWrite
        /\ result = "io_rewrite" =>
            /\ rotContent = AfterWrite
            /\ \/ fileContent = AfterWrite
               \/ /\ IsPrefix(fileContent, Suffix(rotContent, rotStart))
                  /\ Len(fileContent) < Len(rotContent) - rotStart
        /\ result = "ok" => (IF rotated THEN rotContent = AfterWrite
                             ELSE fileContent = AfterWrite)

\* an append failed at the metadata call with its entry in the file
AppendFailureEffectWitness ==
    /\ op = "log"
    /\ result = "io_metadata"
    /\ pre.content # <<>>
    /\ fileContent = AfterWrite

\* C15: a successful append whose post-write size is at most 5 MiB leaves
\* the previous content followed by the entry; the file gets shorter only in
\* a clear or in an append whose post-write size is above 5 MiB.
NoRotationAtOrBelowCeiling ==
    /\ (Appended /\ Len(AfterWrite) <= MaxSize) =>
        (fileContent = AfterWrite /\ ~rotated)
    /\ Len(fileContent) < Len(pre.content) =>
        (op = "clear" \/ (op = "log" /\ Len(AfterWrite) > MaxSize))

\* an append that left the file at exactly 5 MiB
NoRotationAtCeilingWitness ==
    /\ Appended
    /\ Len(fileContent) = MaxSize
    /\ pre.content # <<>>
    /\ fileContent = AfterWrite

\* the suffix of c that starts one byte after the first newline at or after
\* offset max(0, Len(c) - 1 MiB)
IsRotationOf(c, kept) ==
    LET from == IF Len(c) - KeepSize > 0 THEN Len(c) - KeepSize ELSE 0 IN
    \E n \in from..(Len(c) - 1) :
        /\ c[n + 1] = NL
        /\ \A j \in from..(n - 1) : c[j + 1] # NL
        /\ kept = SubSeq(c, n + 2, Len(c))

\* C16: when an append (HOME set, payload parsed, no filesystem failure)
\* leaves the file above 5 MiB, the file is overwritten with the suffix that
\* starts after the first newline at or after length - 1 MiB, at most 1 MiB
\* long.
RotationResult ==
    (/\ op = "log"
     /\ home
     /\ ParseOk(payload)
     /\ ioFaults = 0
     /\ Len(AfterWrite) > MaxSize)
    => (IsRotationOf(AfterWrite, fileContent) /\ Len(fileContent) <= KeepSize)

\* an object whose present members level, message, timestamp, source and
\* stack are strings
IsLogEvent(p) ==
    /\ p.kind = "object"
    /\ \A f \in {"level", "message", "timestamp", "source", "stack"} :
          p[f].t \in {"absent", "str"}

\* C18: an append of a payload that is not of the LogEvent shape returns
\* the parse failure and writes nothing.
ShapeMismatchRejected ==
    (op = "log" /\ home /\ ~IsLogEvent(payload)) =>
        (result = "parse" /\ Unchanged)

RECURSIVE IndentAfterNewlines(_)
IndentAfterNewlines(s) ==
    IF s = <<>> THEN <<>>
    ELSE (IF Head(s) = NL THEN <<NL, 32, 32>> ELSE <<Head(s)>>)
         \o IndentAfterNewlines(Tail(s))

\* `\n  <line>` for each line of the stack text: the text without one final
\* newline, every line break kept and indented
ExpectedStack(s) ==
    IF s = <<>> THEN <<>>
    ELSE LET body == IF s[Len(s)] = NL THEN SubSeq(s, 1, Len(s) - 1) ELSE s
         IN IndentAfterNewlines(<<NL>> \o body)

Field(p, f, default) == IF p[f].t = "str" THEN p[f].s ELSE default

\* the entry the rendering rules give for an event
ExpectedEntry(p) ==
    <<91>> \o Field(p, "timestamp", <<>>) \o <<93, 32>>
    \o ToUppercase(Field(p, "level", <<108, 111, 103>>)) \o <<58, 32>>
    \o Field(p, "message", <<>>)
    \o (IF p.source.t = "str" THEN <<NL, 32, 32, 97, 116, 32>> \o p.source.s
        ELSE <<>>)
    \o (IF p.stack.t = "str" THEN ExpectedStack(p.stack.s) ELSE <<>>)
    \o <<NL>>

\* C19: for every valid event the entry rendered, and the bytes appended
\* to the file, are those of the rendering rules, whatever the file held.
RenderingExact ==
    (Appended /\ IsLogEvent(payload)) =>
        /\ line = ExpectedEntry(payload)
        /\ ~rotated => fileContent = pre.content \o ExpectedEntry(payload)

\* an event with a level, a source and a stack of several lines, one of them
\* empty, appended to a non-empty file
RenderingExactWitness ==
    /\ Appended
    /\ payload.level.t = "str"
    /\ payload.source.t = "str"
    /\ payload.stack = StrF(<<120, NL, NL, 121>>)
    /\ pre.content # <<>>
    /\ fileContent = pre.content \o line

NewlineTerminated == fileContent = <<>> \/ EndsWithNewline(fileContent)

\* C20 as stated: after any sequence of appends and clears, failed ones
\* included, the file is empty or ends with a newline.
AlwaysNewlineTerminated == NewlineTerminated

RotationFindsNewline ==
    (op = "log" /\ rotContent # <<>>) =>
        FindNewline(rotContent, KeepFrom(Len(rotContent))) # -1

\* C20 amended: a call that does not fail in a write (write_all or the
\* rotation rewrite) leaves an empty or newline-terminated file empty or
\* newline-terminated; and every rotation, whatever failed before it, finds
\* a newline at or after keep_from.
NewlineTerminatedUnlessWriteFails ==
    /\ []RotationFindsNewline
    /\ [][(NewlineTerminated /\ result' \notin {"io_write", "io_rewrite"})
          => NewlineTerminated']_vars

\* a rotation that followed a failed call and kept a newline-terminated suffix
NewlineTerminatedWitness ==
    /\ op = "log"
    /\ rotated
    /\ pre.result # "ok"
    /\ pre.op = "log"
    /\ EndsWithNewline(fileContent)

Contains(c, e) ==
    \E i \in 1..(Len(c) - Len(e) + 1) : SubSeq(c, i, i + Len(e) - 1) = e

Quiescent == \A q \in Procs : procs[q].pc \in {"idle", "done"}

\* calls that never overlapped: the entry appended last, when shorter than
\* the retained size, ends the file
SequentialRetains ==
    (Quiescent /\ ~conc.overlapped) =>
        \A q \in Procs :
            (conc.lastWriter = q /\ Len(procs[q].line) < KeepSize)
                => EndsWith(fileContent, procs[q].line)

\* C14: two calls are not serialised: when a call's append lands between
\* another call's read and its overwrite, the overwrite leaves a file
\* without that entry, although the append succeeded; calls that do not
\* overlap keep the entry appended last.
LostUpdateUnderOverlap ==
    /\ []SequentialRetains
    /\ [][\A q \in Procs :
            (procs[q].pc = "rewrite" /\ procs'[q].pc = "done")
                => \A r \in procs[q].missed :
                       ~Contains(fileContent', procs[r].line)]_vars

\* both calls returned, and the entry appended last, short enough to be
\* retained, is not in the file
LostUpdateWitness ==
    /\ \A q \in Procs : procs[q].pc = "done"
    /\ \E r \in Procs :
        /\ conc.lastWriter = r
        /\ Len(procs[r].line) < KeepSize
        /\ ~Contains(fileContent, procs[r].line)

====
